---- MODULE Spec2Model ----
(***************************************************************************)
(* Model of the differential check-and-notify engine of                    *)
(* dedicated-server-availability-watcher: the check controller             *)
(* (src/providers.rs, CheckRunner) and the fingerprint store               *)
(* (src/storage.rs, CheckResultStorage).                                   *)
(*                                                                         *)
(* One behaviour follows one (provider, requested-server list) key over    *)
(* several invocations of the `provider check` command.  The provider,     *)
(* the notifier and the file system are the environment: every call into   *)
(* them draws its outcome from the set of outcomes the call can have.      *)
(***************************************************************************)
EXTENDS Integers, Sequences, FiniteSets, TLC

\* ------------------------------------------------------------------ bounds
\* cycles one interval-mode run may start
MaxCycles == 4
\* invocations of the command in one behaviour
MaxRuns == 3

\* --------------------------------------------------------------- inputs
ProviderNames == {"ovh"}
ServerLists == { <<"typeA", "typeB", "typeC">>, <<"typeA", "typeB", "typeA">> }
\* Result<bool, LibError> of ProviderTrait::check
CheckOutcomes == {"true", "false", "err"}
\* outcome of fs::write in put_hash: done, refused before the file is
\* touched, or failed after the file was created or truncated
WriteOutcomes == {"ok", "denied", "truncated"}
\* Result<(), LibError> of NotifierTrait::notify
NotifyOutcomes == {"ok", "err"}

\* Option<T>
None == << >>
Some(v) == << v >>

VARIABLES
    pc,             \* position of the process
    run,            \* number of the current invocation of the command
    provider_name,  \* CheckRunner.provider.name()
    servers,        \* CheckRunner.servers
    notifier,       \* CheckRunner.notifier is Some(_)
    interval,       \* check_interval's argument is Some(_)
    store,          \* files under the storage root: path -> content
    idx,            \* check_servers: index of the next server to check
    check_err,      \* check_servers returned Err
    current,        \* the CheckResult the cycle builds
    latest,         \* check_interval_loop: remembered CheckResult
    first_check,    \* check_interval_loop
    first_notify,   \* check_interval_loop
    retval,         \* what check_interval returned
    cycle,          \* cycles started in this run
    sleeps,         \* Runner::sleep calls in this run
    trace,          \* calls made by the current cycle, in order
    once_prev,      \* single-shot: once_last as the current cycle found it
    once_last,      \* single-shot: available list of the last checked cycle
    once_ok,        \* every single-shot cycle so far returned Ok
    prev_ok,        \* this run: last_ok as the current cycle found it
    last_ok,        \* this run: available list of the last checked cycle
    loop_ok,        \* every cycle of this run succeeded so far
    notify_ok,      \* a notification of this run succeeded
    prev_notify_failed,  \* the run before was single-shot, its notify failed
    last_attempt,   \* this run: list last given to Runner::notify_result
    call,           \* the last call of a provider or of the store
    call_result     \* what that call returned

vars == << pc, run, provider_name, servers, notifier, interval, store, idx,
           check_err, current, latest, first_check, first_notify, retval,
           cycle, sleeps, trace, once_prev, once_last, once_ok, prev_ok,
           last_ok, loop_ok, notify_ok, prev_notify_failed,
           last_attempt, call, call_result >>

\* Result<T, LibError>; a value is written as a string
Ok(v) == [tag |-> "Ok", val |-> v]
Err(e) == [tag |-> "Err", val |-> e]

\* no call was made yet
NoCall == [op |-> "none"]
NoResult == [tag |-> "none", val |-> ""]

\* ----------------------------------------------------------- CheckResult
\* CheckResult::new
CheckResult_new(name) == [provider_name |-> name, available_servers |-> << >>]

\* ---------------------------------------------------------------- storage
RECURSIVE JoinQuoted(_)
\* the elements of a Vec<String> as serde_json writes them
JoinQuoted(v) ==
    IF v = << >> THEN ""
    ELSE IF Len(v) = 1 THEN "\"" \o v[1] \o "\""
    ELSE "\"" \o v[1] \o "\"," \o JoinQuoted(Tail(v))

\* serde_json::to_string of a Vec<String>
to_json(v) == "[" \o JoinQuoted(v) \o "]"

\* format!("{:x}", Sha256::digest(json)): collision-free on the model's inputs
Sha256Hex(json) == "sha256(" \o json \o ")"

to_json_sha256(v) == Sha256Hex(to_json(v))

\* variant of get_path: the provider name is left out of the file name
get_path_no_provider(name, srv) == to_json_sha256(srv) \o ".sha256"

\* CheckResultStorage::get_path, relative to the storage root
get_path(name, srv) == name \o "-" \o to_json_sha256(srv) \o ".sha256"

\* variant of put_hash: an existing record is kept as it is
put_hash_keep_existing(st, name, srv, result) ==
    LET path == get_path(name, srv)
        available_server_hash == to_json_sha256(result.available_servers)
    IN  IF path \in DOMAIN st THEN st
        ELSE [p \in DOMAIN st \cup {path} |->
                 IF p = path THEN available_server_hash ELSE st[p]]

\* the store after a successful put_hash
put_hash(st, name, srv, result) ==
    LET path == get_path(name, srv)
        available_server_hash == to_json_sha256(result.available_servers)
    IN  [p \in DOMAIN st \cup {path} |->
            IF p = path THEN available_server_hash ELSE st[p]]

\* the store after a put_hash that failed with outcome wr
put_hash_failed(st, name, srv, wr) ==
    LET path == get_path(name, srv)
    IN  IF wr = "denied" THEN st
        ELSE [p \in DOMAIN st \cup {path} |->
                 IF p = path THEN "" ELSE st[p]]

\* CheckResultStorage::get_hash when the read is not refused
\* (content.trim() leaves a hex digest as it is)
get_hash(st, name, srv) ==
    LET path == get_path(name, srv)
    IN  IF path \in DOMAIN st THEN Some(st[path]) ELSE None

\* variant of is_equal: an absent record compares as equal
is_equal_absent_equal(st, name, srv, result) ==
    LET stored_hash == get_hash(st, name, srv)
    IN  IF stored_hash = None THEN TRUE
        ELSE to_json_sha256(result.available_servers) = stored_hash[1]

\* CheckResultStorage::is_equal when the read is not refused
is_equal(st, name, srv, result) ==
    LET stored_hash == get_hash(st, name, srv)
    IN  IF stored_hash = None THEN FALSE
        ELSE to_json_sha256(result.available_servers) = stored_hash[1]

\* outcome of fs::read_to_string in get_hash: the file system answers
\* (with the content, or with NotFound), or the read fails otherwise
ReadOutcomes == {"ok", "denied"}

\* an Option<String> written as a string
OptionStr(o) == IF o = None THEN "None" ELSE "Some(" \o o[1] \o ")"
BoolStr(b) == IF b THEN "true" ELSE "false"

\* variant of get_hash_io: every failure of the read counts as no record
get_hash_io_swallow(st, name, srv, rd) ==
    IF rd = "ok" THEN Ok(OptionStr(get_hash(st, name, srv)))
    ELSE Ok("None")

\* variant of get_hash_io: a missing record is an error like any other
get_hash_io_strict(st, name, srv, rd) ==
    IF rd = "ok" /\ get_hash(st, name, srv) # None
    THEN Ok(OptionStr(get_hash(st, name, srv)))
    ELSE Err("IOError")

\* CheckResultStorage::get_hash: Result<Option<String>, LibError>
get_hash_io(st, name, srv, rd) ==
    IF rd = "ok" THEN Ok(OptionStr(get_hash(st, name, srv)))
    ELSE Err("IOError")

\* CheckResultStorage::is_equal: Result<bool, LibError>
is_equal_io(st, name, srv, result, rd) ==
    LET stored_hash == get_hash_io(st, name, srv, rd)
    IN  IF stored_hash.tag = "Err" THEN stored_hash
        ELSE Ok(BoolStr(is_equal(st, name, srv, result)))

\* CheckResultStorage::put_hash: Result<(), LibError>
put_hash_io(wr) == IF wr = "ok" THEN Ok("()") ELSE Err("IOError")

\* what the storage path is before CheckResultStorage::new: nothing, a
\* directory, a regular file, nothing below a parent that refuses the
\* creation, or the empty path
PathKinds == {"absent", "dir", "file", "uncreatable", "empty"}

\* fs::create_dir_all: whether it succeeds and what the path is afterwards
\* (the empty path succeeds at once; an existing path that is not a
\* directory fails with AlreadyExists)
create_dir_all(kind) ==
    CASE kind = "absent" -> [ok |-> TRUE, after |-> "dir"]
      [] kind = "dir" -> [ok |-> TRUE, after |-> "dir"]
      [] kind = "empty" -> [ok |-> TRUE, after |-> "empty"]
      [] OTHER -> [ok |-> FALSE, after |-> kind]

\* Path::is_dir
is_dir(kind) == kind = "dir"

\* variant of CheckResultStorage_new: the path is not created
CheckResultStorage_new_no_create(kind) ==
    IF ~is_dir(kind) THEN Err("ValueError") ELSE Ok("CheckResultStorage")

\* CheckResultStorage::new
CheckResultStorage_new(kind) ==
    LET created == create_dir_all(kind)
    IN  IF ~created.ok THEN Err("IOError")
        ELSE IF ~is_dir(created.after) THEN Err("ValueError")
        ELSE Ok("CheckResultStorage")

\* ------------------------------------------------------------ trace events
\* a call the cycle made: what was called, what it returned, and the
\* available list it was given
Event(op, ret, avail) == [op |-> op, ret |-> ret, avail |-> avail]

Ops(tr) == { tr[i].op : i \in DOMAIN tr }

Count(tr, op) == Cardinality({ i \in DOMAIN tr : tr[i].op = op })

\* the cycle made the call op and it returned ret
Returned(tr, op, ret) == \E i \in DOMAIN tr : tr[i].op = op /\ tr[i].ret = ret

\* ------------------------------------------------------------------- Init
Init ==
    /\ pc = "main"
    /\ run = 1
    /\ provider_name \in ProviderNames
    /\ servers \in ServerLists
    /\ notifier = FALSE
    /\ interval = FALSE
    /\ store = << >>
    /\ idx = 1
    /\ check_err = FALSE
    /\ current = CheckResult_new(provider_name)
    /\ latest = CheckResult_new(provider_name)
    /\ first_check = TRUE
    /\ first_notify = TRUE
    /\ retval = "Running"
    /\ cycle = 0
    /\ sleeps = 0
    /\ trace = << >>
    /\ once_prev = None
    /\ once_last = None
    /\ once_ok = TRUE
    /\ prev_ok = None
    /\ last_ok = None
    /\ loop_ok = TRUE
    /\ notify_ok = FALSE
    /\ prev_notify_failed = FALSE
    /\ last_attempt = None
    /\ call = NoCall
    /\ call_result = NoResult

\* ------------------------------------------------------------ registries
\* providers::FACTORY: the key and the type whose from_env it holds
PROVIDER_FACTORY ==
    << [name |-> "online", factory |-> "Online"],
       [name |-> "ovh", factory |-> "Ovh"],
       [name |-> "scaleway", factory |-> "Scaleway"] >>

\* notifiers::FACTORY, with every feature enabled
NOTIFIER_FACTORY ==
    << [name |-> "simple-get", factory |-> "SimpleGet"],
       [name |-> "simple-post", factory |-> "SimplePost"],
       [name |-> "simple-put", factory |-> "SimplePut"],
       [name |-> "ifttt-webhook-json", factory |-> "WebHookJson"],
       [name |-> "ifttt-webhook-values", factory |-> "WebHookValues"],
       [name |-> "email-sendmail", factory |-> "EmailViaSendmail"] >>

\* ProviderTrait::name and NotifierTrait::name of an instance of the type
TraitName(type) ==
    CASE type = "Online" -> "online"
      [] type = "Ovh" -> "ovh"
      [] type = "Scaleway" -> "scaleway"
      [] type = "SimpleGet" -> "simple-get"
      [] type = "SimplePost" -> "simple-post"
      [] type = "SimplePut" -> "simple-put"
      [] type = "WebHookJson" -> "ifttt-webhook-json"
      [] type = "WebHookValues" -> "ifttt-webhook-values"
      [] type = "EmailViaSendmail" -> "email-sendmail"
      [] type = "EmailViaSmtp" -> "email-sendmail"

\* the names asked for: the keys, and names no table holds
LookupNames ==
    { PROVIDER_FACTORY[i].name : i \in DOMAIN PROVIDER_FACTORY }
    \cup { NOTIFIER_FACTORY[i].name : i \in DOMAIN NOTIFIER_FACTORY }
    \cup { "", "OVH", "email-smtp", "ifttt" }

\* whether the environment lets the constructor succeed
EnvOutcomes == {"ok", "EnvError", "ValueError"}

\* the entries the lookup finds
Entries(FACTORY, name) ==
    SelectSeq(FACTORY, LAMBDA entry : entry.name = name)

\* what a lookup returns: the constructors it ran, and the name() of the
\* instance or the error
Looked(tag, val, ran) == [tag |-> tag, val |-> val, ran |-> ran]

\* variant of from_env_by_name: an unknown name gets the first entry
from_env_by_name_default(FACTORY, unknown, name, env) ==
    LET found == Entries(FACTORY, name)
        factory == IF found = << >> THEN FACTORY[1].factory
                   ELSE found[1].factory
    IN  IF env # "ok" THEN Looked("Err", env, << factory >>)
        ELSE Looked("Ok", TraitName(factory), << factory >>)

\* Factory::from_env_by_name, of providers and of notifiers
from_env_by_name(FACTORY, unknown, name, env) ==
    LET found == Entries(FACTORY, name)
    IN  IF found = << >> THEN Looked("Err", unknown, << >>)
        ELSE LET factory == found[1].factory
             IN  IF env # "ok" THEN Looked("Err", env, << factory >>)
                 ELSE Looked("Ok", TraitName(factory), << factory >>)

\* ------------------------------------------------------------ controller
\* Runner::notify_result: without a notifier the result is printed and
\* the call cannot fail
NotifyResults(n) == IF n THEN NotifyOutcomes ELSE {"ok"}

\* anyhow::Result<()> of Runner::notify_result
NotifyRet(out) == IF out = "ok" THEN "Ok" ELSE "Err"

\* variant of sleep_before: every iteration sleeps
sleep_always(fc) == TRUE

\* check_interval_loop: "sleep for requested duration, but not on first
\* iteration"
sleep_before(fc) == ~fc

\* variant of escalate_check: the flag is read inverted
escalate_check_later(fc, err) == ~fc /\ err

\* variant of escalate_check: every check error is returned
escalate_check_always(fc, err) == err

\* check_interval_loop: "produce an error only the first check"
escalate_check(fc, err) == fc /\ err

\* variant of unchanged_result: only the number of available servers is
\* compared
unchanged_result_count(cur, lat) ==
    /\ cur.provider_name = lat.provider_name
    /\ Len(cur.available_servers) = Len(lat.available_servers)

\* check_interval_loop: "Only notifiy when a difference is detected"
\* (derived PartialEq of CheckResult: both fields)
unchanged_result(cur, lat) ==
    /\ cur.provider_name = lat.provider_name
    /\ cur.available_servers = lat.available_servers

\* variant of escalate_notify: every notification error is returned
escalate_notify_always(fn, err) == err

\* check_interval_loop: "produce an error only the first notify"
escalate_notify(fn, err) == fn /\ err

\* ----- CheckRunner::new
\* the --notifier argument: absent, a registered name, a name of no entry
NotifierArgs == { None, Some("email-sendmail"), Some("email-smtp") }

\* the provider argument: the watched provider, or a name of no entry
ProviderArgs == ProviderNames \cup { "OVH" }

\* Runner::build_provider
build_provider(name, env) ==
    from_env_by_name(PROVIDER_FACTORY, "UnknownProvider", name, env)

\* Runner::build_notifier
build_notifier(name, env) ==
    IF name = None THEN Looked("Ok", "None", << >>)
    ELSE from_env_by_name(NOTIFIER_FACTORY, "UnknownNotifier", name[1], env)

\* Runner::build_storage
build_storage(kind) == CheckResultStorage_new(kind)

\* variant of CheckRunner_new: a storage that cannot be built is ignored
CheckRunner_new_any_storage(pname, penv, nname, nenv, kind) ==
    LET p == build_provider(pname, penv)
        n == build_notifier(nname, nenv)
    IN  IF p.tag = "Err" THEN Err(p.val)
        ELSE IF n.tag = "Err" THEN Err(n.val)
        ELSE Ok("CheckRunner")

\* CheckRunner::new: the three fields are built in order, and the first
\* error is returned
CheckRunner_new(pname, penv, nname, nenv, kind) ==
    LET p == build_provider(pname, penv)
        n == build_notifier(nname, nenv)
        st == build_storage(kind)
    IN  IF p.tag = "Err" THEN Err(p.val)
        ELSE IF n.tag = "Err" THEN Err(n.val)
        ELSE IF st.tag = "Err" THEN Err(st.val)
        ELSE Ok("CheckRunner")

\* main: the `provider check` command.  CheckRunner::new is called with
\* the arguments and the environment; its error is returned at once,
\* otherwise check_interval is called.  A watch is either invoked
\* repeatedly without --interval or run with --interval.
main ==
    /\ pc = "main"
    /\ \E pname \in ProviderArgs, penv \in EnvOutcomes, nname \in NotifierArgs,
          nenv \in EnvOutcomes, kind \in PathKinds, i \in BOOLEAN :
          LET built == CheckRunner_new(pname, penv, nname, nenv, kind)
          IN  /\ run > 1 => i = interval
              /\ interval' = i
              /\ call' = [op |-> "CheckRunner::new", provider |-> pname,
                          provider_env |-> penv, notifier |-> nname,
                          notifier_env |-> nenv, storage |-> kind]
              /\ call_result' = built
              /\ IF built.tag = "Ok"
                 THEN /\ notifier' = (nname # None)
                      /\ pc' = "check_interval"
                      /\ retval' = retval
                 ELSE /\ notifier' = notifier
                      /\ pc' = "returned"
                      /\ retval' = built.val
    /\ UNCHANGED << run, provider_name, servers, store, idx, check_err,
                    current, latest, first_check, first_notify,
                    cycle, sleeps, trace, once_prev, once_last, once_ok,
                    prev_ok, last_ok, loop_ok, notify_ok >>
    /\ UNCHANGED << prev_notify_failed, last_attempt >>

\* check_interval_once up to the call of check_servers
check_interval_once ==
    /\ pc = "check_interval"
    /\ ~interval
    /\ current' = CheckResult_new(provider_name)
    /\ idx' = 1
    /\ cycle' = cycle + 1
    /\ trace' = << >>
    /\ pc' = "check_servers"
    /\ UNCHANGED << run, provider_name, servers, notifier, interval, store,
                    check_err, latest, first_check, first_notify, retval,
                    sleeps, once_prev, once_last, once_ok, prev_ok, last_ok,
                    loop_ok, notify_ok >>
    /\ call' = NoCall
    /\ call_result' = NoResult
    /\ UNCHANGED << prev_notify_failed, last_attempt >>

\* check_interval_loop up to the loop
check_interval_loop ==
    /\ pc = "check_interval"
    /\ interval
    /\ latest' = CheckResult_new(provider_name)
    /\ first_check' = TRUE
    /\ first_notify' = TRUE
    /\ pc' = "loop"
    /\ UNCHANGED << run, provider_name, servers, notifier, interval, store,
                    idx, check_err, current, retval, cycle, sleeps, trace,
                    once_prev, once_last, once_ok, prev_ok, last_ok,
                    loop_ok, notify_ok >>
    /\ UNCHANGED << call, call_result >>
    /\ UNCHANGED << prev_notify_failed, last_attempt >>

\* check_interval_loop: top of an iteration up to the call of check_servers
loop_iteration ==
    /\ pc = "loop"
    /\ cycle < MaxCycles
    /\ IF sleep_before(first_check)
          THEN /\ sleeps' = sleeps + 1
               /\ trace' = << Event("sleep", "Ok", << >>) >>
          ELSE /\ sleeps' = sleeps
               /\ trace' = << >>
    /\ current' = CheckResult_new(provider_name)
    /\ idx' = 1
    /\ cycle' = cycle + 1
    /\ pc' = "check_servers"
    /\ UNCHANGED << run, provider_name, servers, notifier, interval, store,
                    check_err, latest, first_check, first_notify, retval,
                    once_prev, once_last, once_ok, prev_ok, last_ok,
                    loop_ok, notify_ok >>
    /\ call' = NoCall
    /\ call_result' = NoResult
    /\ UNCHANGED << prev_notify_failed, last_attempt >>

\* Result<bool, LibError> of the provider's check
check_result(outcome) == IF outcome = "err" THEN Err("LibError") ELSE Ok(outcome)

\* where check_servers goes after the server at index i answered
after_server(i, n, failed) ==
    IF failed \/ i = n THEN "checked" ELSE "check_servers"

\* variant of check_servers: the server is pushed whenever its check did
\* not fail, whatever it answered
check_servers_push_all ==
    /\ pc = "check_servers"
    /\ idx <= Len(servers)
    /\ \E outcome \in CheckOutcomes :
          /\ call' = [op |-> "check", server |-> servers[idx]]
          /\ call_result' = check_result(outcome)
          /\ check_err' = (outcome = "err")
          /\ current' = IF outcome # "err"
                THEN [current EXCEPT !.available_servers =
                                         Append(@, servers[idx])]
                ELSE current
          /\ pc' = after_server(idx, Len(servers), outcome = "err")
    /\ idx' = idx + 1
    /\ UNCHANGED << run, provider_name, servers, notifier, interval, store,
                    latest, first_check, first_notify, retval, cycle, trace,
                    sleeps, once_prev, once_last, once_ok, prev_ok, last_ok,
                    loop_ok, notify_ok >>
    /\ UNCHANGED << prev_notify_failed, last_attempt >>

\* check_servers: one iteration, the provider's check of servers[idx]
check_servers ==
    /\ pc = "check_servers"
    /\ idx <= Len(servers)
    /\ \E outcome \in CheckOutcomes :
          /\ call' = [op |-> "check", server |-> servers[idx]]
          /\ call_result' = check_result(outcome)
          /\ check_err' = (outcome = "err")
          /\ current' = IF outcome = "true"
                THEN [current EXCEPT !.available_servers =
                                         Append(@, servers[idx])]
                ELSE current
          /\ pc' = after_server(idx, Len(servers), outcome = "err")
    /\ idx' = idx + 1
    /\ UNCHANGED << run, provider_name, servers, notifier, interval, store,
                    latest, first_check, first_notify, retval, cycle, trace,
                    sleeps, once_prev, once_last, once_ok, prev_ok, last_ok,
                    loop_ok, notify_ok >>
    /\ UNCHANGED << prev_notify_failed, last_attempt >>

\* variant of once_check_failed: the servers found before the failing one
\* are notified before the error is returned
once_check_failed_notifies ==
    /\ pc = "checked"
    /\ ~interval
    /\ check_err
    /\ trace' = Append(trace, Event("notify_result", "Ok",
                                    current.available_servers))
    /\ retval' = "CheckError"
    /\ once_ok' = FALSE
    /\ pc' = "returned"
    /\ UNCHANGED << run, provider_name, servers, notifier, interval, store,
                    idx, check_err, current, latest, first_check,
                    first_notify, cycle, sleeps, once_prev, once_last,
                    prev_ok, last_ok, loop_ok, notify_ok >>
    /\ UNCHANGED << call, call_result >>
    /\ UNCHANGED << prev_notify_failed, last_attempt >>

\* check_interval_once: check_servers failed, the error is returned
once_check_failed ==
    /\ pc = "checked"
    /\ ~interval
    /\ check_err
    /\ retval' = "CheckError"
    /\ once_ok' = FALSE
    /\ pc' = "returned"
    /\ UNCHANGED << run, provider_name, servers, notifier, interval, store,
                    idx, check_err, current, latest, first_check,
                    first_notify, cycle, sleeps, trace, once_prev,
                    once_last, prev_ok, last_ok, loop_ok, notify_ok >>
    /\ UNCHANGED << call, call_result >>
    /\ UNCHANGED << prev_notify_failed, last_attempt >>

\* check_interval_once: is_equal fails because get_hash cannot read the
\* record for another reason than its absence
once_is_equal_failed ==
    /\ pc = "checked"
    /\ ~interval
    /\ ~check_err
    /\ \E rd \in ReadOutcomes :
          /\ is_equal_io(store, provider_name, servers, current, rd).tag
                = "Err"
          /\ call' = [op |-> "is_equal", io |-> rd]
          /\ call_result' =
                is_equal_io(store, provider_name, servers, current, rd)
    /\ trace' = Append(trace,
                       Event("is_equal", "Err", current.available_servers))
    /\ retval' = "IOError"
    /\ once_prev' = once_last
    /\ once_last' = Some(current.available_servers)
    /\ once_ok' = FALSE
    /\ pc' = "returned"
    /\ UNCHANGED << run, provider_name, servers, notifier, interval, store,
                    idx, check_err, current, latest, first_check,
                    first_notify, cycle, sleeps, prev_ok, last_ok, loop_ok,
                    notify_ok >>
    /\ UNCHANGED << prev_notify_failed, last_attempt >>

\* variant of once_unchanged: the unchanged result is notified again
once_unchanged_notifies ==
    /\ pc = "checked"
    /\ ~interval
    /\ ~check_err
    /\ \E rd \in ReadOutcomes :
          /\ is_equal_io(store, provider_name, servers, current, rd)
                = Ok("true")
          /\ call' = [op |-> "is_equal", io |-> rd]
          /\ call_result' =
                is_equal_io(store, provider_name, servers, current, rd)
    /\ trace' = trace \o
          << Event("is_equal", "true", current.available_servers),
             Event("notify_result", "Ok", current.available_servers) >>
    /\ retval' = "Ok"
    /\ once_prev' = once_last
    /\ once_last' = Some(current.available_servers)
    /\ pc' = "returned"
    /\ UNCHANGED << run, provider_name, servers, notifier, interval, store,
                    idx, check_err, current, latest, first_check,
                    first_notify, cycle, sleeps, once_ok, prev_ok, last_ok,
                    loop_ok, notify_ok >>
    /\ UNCHANGED << prev_notify_failed, last_attempt >>

\* check_interval_once: "exit if there was no change"
once_unchanged ==
    /\ pc = "checked"
    /\ ~interval
    /\ ~check_err
    /\ \E rd \in ReadOutcomes :
          /\ is_equal_io(store, provider_name, servers, current, rd)
                = Ok("true")
          /\ call' = [op |-> "is_equal", io |-> rd]
          /\ call_result' =
                is_equal_io(store, provider_name, servers, current, rd)
    /\ trace' = Append(trace,
                       Event("is_equal", "true", current.available_servers))
    /\ retval' = "Ok"
    /\ once_prev' = once_last
    /\ once_last' = Some(current.available_servers)
    /\ pc' = "returned"
    /\ UNCHANGED << run, provider_name, servers, notifier, interval, store,
                    idx, check_err, current, latest, first_check,
                    first_notify, cycle, sleeps, once_ok, prev_ok, last_ok,
                    loop_ok, notify_ok >>
    /\ UNCHANGED << prev_notify_failed, last_attempt >>

\* variant of once_changed: the notification comes first, and the
\* fingerprint is written only after it succeeded
once_changed_notify_first ==
    /\ pc = "checked"
    /\ ~interval
    /\ ~check_err
    /\ \E rd \in ReadOutcomes :
          is_equal_io(store, provider_name, servers, current, rd)
             = Ok("false")
    /\ \E out \in NotifyResults(notifier), wr \in WriteOutcomes :
          LET begun == trace \o
                  << Event("is_equal", "false", current.available_servers),
                     Event("notify_result", NotifyRet(out),
                           current.available_servers) >>
          IN  IF out = "err"
              THEN /\ trace' = begun
                   /\ store' = store
                   /\ retval' = "NotifyError"
                   /\ once_ok' = FALSE
                   /\ UNCHANGED << call, call_result >>
              ELSE /\ call' = [op |-> "put_hash", io |-> wr]
                   /\ call_result' = put_hash_io(wr)
                   /\ trace' = Append(begun,
                         Event("put_hash", put_hash_io(wr).tag,
                               current.available_servers))
                   /\ store' = IF wr = "ok"
                        THEN put_hash(store, provider_name, servers, current)
                        ELSE put_hash_failed(store, provider_name, servers, wr)
                   /\ retval' = IF wr = "ok" THEN "Ok" ELSE "IOError"
                   /\ once_ok' = (once_ok /\ wr = "ok")
    /\ once_prev' = once_last
    /\ once_last' = Some(current.available_servers)
    /\ pc' = "returned"
    /\ UNCHANGED << run, provider_name, servers, notifier, interval, idx,
                    check_err, current, latest, first_check, first_notify,
                    cycle, sleeps, prev_ok, last_ok, loop_ok, notify_ok >>
    /\ UNCHANGED << prev_notify_failed, last_attempt >>

\* check_interval_once: "store latest", then "Notify of the new"
once_changed ==
    /\ pc = "checked"
    /\ ~interval
    /\ ~check_err
    /\ \E rd \in ReadOutcomes :
          is_equal_io(store, provider_name, servers, current, rd)
             = Ok("false")
    /\ \E wr \in WriteOutcomes :
          /\ call' = [op |-> "put_hash", io |-> wr]
          /\ call_result' = put_hash_io(wr)
          /\ IF put_hash_io(wr).tag = "Err"
             THEN /\ trace' = trace \o
                        << Event("is_equal", "false", current.available_servers),
                           Event("put_hash", "Err", current.available_servers) >>
                  /\ store' = put_hash_failed(store, provider_name, servers, wr)
                  /\ retval' = "IOError"
                  /\ once_ok' = FALSE
             ELSE \E out \in NotifyResults(notifier) :
                  /\ trace' = trace \o
                        << Event("is_equal", "false", current.available_servers),
                           Event("put_hash", "Ok", current.available_servers),
                           Event("notify_result", NotifyRet(out),
                                 current.available_servers) >>
                  /\ store' = put_hash(store, provider_name, servers, current)
                  /\ retval' = IF out = "ok" THEN "Ok" ELSE "NotifyError"
                  /\ once_ok' = (once_ok /\ out = "ok")
    /\ once_prev' = once_last
    /\ once_last' = Some(current.available_servers)
    /\ pc' = "returned"
    /\ UNCHANGED << run, provider_name, servers, notifier, interval, idx,
                    check_err, current, latest, first_check, first_notify,
                    cycle, sleeps, prev_ok, last_ok, loop_ok, notify_ok >>
    /\ UNCHANGED << prev_notify_failed, last_attempt >>

\* check_interval_loop: the check of the first iteration failed
loop_check_escalated ==
    /\ pc = "checked"
    /\ interval
    /\ escalate_check(first_check, check_err)
    /\ retval' = "CheckError"
    /\ loop_ok' = FALSE
    /\ pc' = "returned"
    /\ UNCHANGED << run, provider_name, servers, notifier, interval, store,
                    idx, check_err, current, latest, first_check,
                    first_notify, cycle, sleeps, trace, once_prev,
                    once_last, once_ok, prev_ok, last_ok, notify_ok >>
    /\ UNCHANGED << call, call_result >>
    /\ UNCHANGED << prev_notify_failed, last_attempt >>

\* variant of loop_check_logged: a failed check forgets the remembered
\* result
loop_check_logged_forgets ==
    /\ pc = "checked"
    /\ interval
    /\ ~escalate_check(first_check, check_err)
    /\ check_err
    /\ first_check' = FALSE
    /\ latest' = CheckResult_new(provider_name)
    /\ trace' = Append(trace, Event("eprintln", "Ok", << >>))
    /\ loop_ok' = FALSE
    /\ pc' = "loop"
    /\ UNCHANGED << run, provider_name, servers, notifier, interval, store,
                    idx, check_err, current, first_notify, retval, cycle,
                    sleeps, once_prev, once_last, once_ok, prev_ok, last_ok,
                    notify_ok >>
    /\ UNCHANGED << call, call_result >>
    /\ UNCHANGED << prev_notify_failed, last_attempt >>

\* check_interval_loop: "next times, only log the error, and do not go
\* further"
loop_check_logged ==
    /\ pc = "checked"
    /\ interval
    /\ ~escalate_check(first_check, check_err)
    /\ check_err
    /\ first_check' = FALSE
    /\ trace' = Append(trace, Event("eprintln", "Ok", << >>))
    /\ loop_ok' = FALSE
    /\ pc' = "loop"
    /\ UNCHANGED << run, provider_name, servers, notifier, interval, store,
                    idx, check_err, current, latest, first_notify, retval,
                    cycle, sleeps, once_prev, once_last, once_ok, prev_ok,
                    last_ok, notify_ok >>
    /\ UNCHANGED << call, call_result >>
    /\ UNCHANGED << prev_notify_failed, last_attempt >>

\* check_interval_loop: the check succeeded and current == latest
loop_unchanged ==
    /\ pc = "checked"
    /\ interval
    /\ ~escalate_check(first_check, check_err)
    /\ ~check_err
    /\ unchanged_result(current, latest)
    /\ first_check' = FALSE
    /\ trace' = Append(trace, Event("eq", "true", current.available_servers))
    /\ prev_ok' = last_ok
    /\ last_ok' = Some(current.available_servers)
    /\ pc' = "loop"
    /\ UNCHANGED << run, provider_name, servers, notifier, interval, store,
                    idx, check_err, current, latest, first_notify, retval,
                    cycle, sleeps, once_prev, once_last, once_ok, loop_ok,
                    notify_ok >>
    /\ UNCHANGED << call, call_result >>
    /\ UNCHANGED << prev_notify_failed, last_attempt >>

\* variant of loop_notify: the result of a notification that failed is
\* not remembered
loop_notify_keep_on_failure ==
    /\ pc = "checked"
    /\ interval
    /\ ~escalate_check(first_check, check_err)
    /\ ~check_err
    /\ ~unchanged_result(current, latest)
    /\ first_check' = FALSE
    /\ prev_ok' = last_ok
    /\ last_ok' = Some(current.available_servers)
    /\ \E out \in NotifyResults(notifier) :
          LET notified == trace \o
                  << Event("eq", "false", current.available_servers),
                     Event("notify_result", NotifyRet(out),
                           current.available_servers) >>
          IN  /\ latest' = IF out = "ok" THEN current ELSE latest
              /\ notify_ok' = (notify_ok \/ out = "ok")
              /\ loop_ok' = (loop_ok /\ out = "ok")
              /\ IF escalate_notify(first_notify, out = "err")
                    THEN /\ retval' = "NotifyError"
                         /\ first_notify' = first_notify
                         /\ trace' = notified
                         /\ pc' = "returned"
                    ELSE /\ retval' = retval
                         /\ first_notify' = FALSE
                         /\ trace' = IF out = "err"
                               THEN Append(notified,
                                           Event("eprintln", "Ok", << >>))
                               ELSE notified
                         /\ pc' = "loop"
    /\ UNCHANGED << run, provider_name, servers, notifier, interval, store,
                    idx, check_err, current, cycle, sleeps, once_prev,
                    once_last, once_ok >>
    /\ UNCHANGED << call, call_result >>
    /\ UNCHANGED prev_notify_failed
    /\ last_attempt' = Some(current.available_servers)

\* check_interval_loop: the check succeeded and current != latest: notify,
\* remember the result, then handle the outcome of the notification
loop_notify ==
    /\ pc = "checked"
    /\ interval
    /\ ~escalate_check(first_check, check_err)
    /\ ~check_err
    /\ ~unchanged_result(current, latest)
    /\ first_check' = FALSE
    /\ latest' = current
    /\ prev_ok' = last_ok
    /\ last_ok' = Some(current.available_servers)
    /\ \E out \in NotifyResults(notifier) :
          LET notified == trace \o
                  << Event("eq", "false", current.available_servers),
                     Event("notify_result", NotifyRet(out),
                           current.available_servers) >>
          IN  /\ notify_ok' = (notify_ok \/ out = "ok")
              /\ loop_ok' = (loop_ok /\ out = "ok")
              /\ IF escalate_notify(first_notify, out = "err")
                    THEN /\ retval' = "NotifyError"
                         /\ first_notify' = first_notify
                         /\ trace' = notified
                         /\ pc' = "returned"
                    ELSE /\ retval' = retval
                         /\ first_notify' = FALSE
                         /\ trace' = IF out = "err"
                               THEN Append(notified,
                                           Event("eprintln", "Ok", << >>))
                               ELSE notified
                         /\ pc' = "loop"
    /\ UNCHANGED << run, provider_name, servers, notifier, interval, store,
                    idx, check_err, current, cycle, sleeps, once_prev,
                    once_last, once_ok >>
    /\ UNCHANGED << call, call_result >>
    /\ UNCHANGED prev_notify_failed
    /\ last_attempt' = Some(current.available_servers)

\* the command returned; it is invoked again later with the same provider
\* and servers, on the same storage root
reinvoke ==
    /\ pc = "returned"
    /\ run < MaxRuns
    /\ run' = run + 1
    /\ pc' = "main"
    /\ idx' = 1
    /\ check_err' = FALSE
    /\ current' = CheckResult_new(provider_name)
    /\ latest' = CheckResult_new(provider_name)
    /\ first_check' = TRUE
    /\ first_notify' = TRUE
    /\ retval' = "Running"
    /\ cycle' = 0
    /\ sleeps' = 0
    /\ trace' = << >>
    /\ prev_ok' = None
    /\ last_ok' = None
    /\ loop_ok' = TRUE
    /\ notify_ok' = FALSE
    /\ prev_notify_failed' = (~interval /\ retval = "NotifyError")
    /\ last_attempt' = None
    /\ UNCHANGED << provider_name, servers, notifier, interval, store,
                    once_prev, once_last, once_ok >>
    /\ call' = NoCall
    /\ call_result' = NoResult

Next ==
    \/ main
    \/ check_interval_once
    \/ check_interval_loop
    \/ loop_iteration
    \/ check_servers
    \/ once_check_failed
    \/ once_is_equal_failed
    \/ once_unchanged
    \/ once_changed
    \/ loop_check_escalated
    \/ loop_check_logged
    \/ loop_unchanged
    \/ loop_notify
    \/ reinvoke

Spec == Init /\ [][Next]_vars

\* ------------------------------------------------------------ properties
\* CheckRunner::new failed, and main returned its error without calling
\* check_interval
NewFailed == call.op = "CheckRunner::new" /\ call_result.tag = "Err"

\* a cycle has just ended: the loop is back at its top, or the call returned
CycleEnd == cycle >= 1 /\ pc \in {"loop", "returned"}

\* the cycle called Runner::notify_result
Notified == "notify_result" \in Ops(trace)

\* the cycle wrote the fingerprint record
Stored == Returned(trace, "put_hash", "Ok")

\* the cycle's available list is not the one of the previous cycle
\* (a first cycle counting as different)
Differs(prev) == prev = None \/ current.available_servers # prev[1]

\* no read or write of the store failed in the cycle
NoStorageError ==
    ~Returned(trace, "is_equal", "Err") /\ ~Returned(trace, "put_hash", "Err")

C2_FirstCheckFailureFatal ==
    /\ (interval /\ cycle = 1 /\ check_err /\ pc # "checked") =>
           /\ pc = "returned"
           /\ retval = "CheckError"
    /\ (interval /\ retval = "CheckError") =>
           /\ pc = "returned"
           /\ cycle = 1
           /\ sleeps = 0
           /\ trace = << >>
           /\ latest = CheckResult_new(provider_name)

\* the loop returned the check error of its first cycle
C2_Witness ==
    /\ interval
    /\ pc = "returned"
    /\ retval = "CheckError"
    /\ cycle = 1
    /\ check_err

\* C3: in interval mode a check failure of a cycle after the first is
\* logged and leaves the loop running with the remembered result
\* untouched, so that a successful cycle notifies only if its available
\* list differs from that of the last cycle whose check succeeded.
C3_LaterCheckFailureLogged ==
    /\ [][(interval /\ pc = "checked" /\ check_err /\ cycle > 1) =>
             /\ pc' = "loop"
             /\ retval' = "Running"
             /\ latest' = latest
             /\ store' = store
             /\ last_ok' = last_ok
             /\ trace' = Append(trace, Event("eprintln", "Ok", << >>))]_vars
    /\ [](interval /\ last_ok # None =>
             latest.available_servers = last_ok[1])
    /\ [](interval /\ CycleEnd /\ Notified /\ prev_ok # None =>
             current.available_servers # prev_ok[1])
    /\ [](interval /\ CycleEnd /\ cycle > 1 /\ check_err =>
             /\ pc = "loop"
             /\ retval = "Running"
             /\ cycle < MaxCycles => ENABLED loop_iteration)

\* success, failure, then a success with the list of the first cycle: the
\* third cycle sends nothing
C3_Witness ==
    /\ interval
    /\ ~notifier
    /\ cycle = 3
    /\ pc = "loop"
    /\ ~loop_ok
    /\ ~check_err
    /\ prev_ok = Some(<< "typeA", "typeB" >>)
    /\ current.available_servers = << "typeA", "typeB" >>
    /\ ~Notified

C6_FailedCycleInvisible ==
    /\ [](check_err => Ops(trace) \subseteq {"sleep", "eprintln"})
    /\ [][(pc = "checked" /\ check_err) =>
             /\ store' = store
             /\ latest' = latest
             /\ last_ok' = last_ok
             /\ once_last' = once_last]_vars
    /\ [](\A i \in DOMAIN trace :
             trace[i].op \in {"is_equal", "eq", "put_hash", "notify_result"}
                 => /\ ~check_err
                    /\ idx = Len(servers) + 1
                    /\ trace[i].avail = current.available_servers)

\* typeA was found available, then the check of a later server failed, and
\* the cycle is over
C6_Witness ==
    /\ check_err
    /\ CycleEnd
    /\ current.available_servers = << "typeA" >>

\* the cycle that just ended is the first of the watch whose check
\* succeeded; no fingerprint record existed when it started
FirstSuccessfulCycle ==
    /\ CycleEnd
    /\ ~check_err
    /\ IF interval THEN prev_ok = None ELSE once_prev = None

C9_Original ==
    (~interval /\ pc = "returned" /\ ~NewFailed) =>
        /\ cycle = 1
        /\ Returned(trace, "is_equal", "false") <=> (Stored /\ Notified)

\* C9 amended: single-shot mode runs one cycle and returns; it calls
\* put_hash if and only if the comparison reports a change, and notifies
\* if and only if the comparison reports a change and the write succeeds;
\* when unchanged it neither writes nor notifies.
C9_SingleShot ==
    /\ ~interval => cycle <= 1 /\ sleeps = 0
    /\ (~interval /\ pc = "returned" /\ ~NewFailed) =>
           /\ cycle = 1
           /\ check_err <=> trace = << >>
           /\ ~check_err => Count(trace, "is_equal") = 1
           /\ Returned(trace, "is_equal", "false") <=>
                  "put_hash" \in Ops(trace)
           /\ Notified <=> Stored
           /\ Count(trace, "put_hash") <= 1
           /\ Count(trace, "notify_result") <= 1
           /\ Returned(trace, "is_equal", "true") =>
                  /\ retval = "Ok"
                  /\ Ops(trace) = {"is_equal"}

\* the comparison reported a change and the write failed: no notification
C9_Witness ==
    /\ ~interval
    /\ pc = "returned"
    /\ Returned(trace, "is_equal", "false")
    /\ Returned(trace, "put_hash", "Err")
    /\ ~Notified
    /\ retval = "IOError"

\* C10: in interval mode no sleep precedes the first cycle and exactly one
\* sleep separates two consecutive cycles, however the earlier one ended.
C10_OneSleepBetweenCycles ==
    /\ [](interval /\ cycle >= 1 =>
             /\ sleeps = cycle - 1
             /\ Count(trace, "sleep") = (IF cycle = 1 THEN 0 ELSE 1)
             /\ cycle > 1 => trace[1].op = "sleep")
    /\ [][interval /\ run' = run /\ cycle' # cycle /\ cycle >= 1 =>
             /\ cycle' = cycle + 1
             /\ sleeps' = sleeps + 1
             /\ pc = "loop"]_vars
    /\ [][interval /\ run' = run /\ sleeps' # sleeps =>
             cycle' = cycle + 1]_vars

\* the third cycle of a run began after a swallowed notification failure
C10_Witness ==
    /\ interval
    /\ cycle = 3
    /\ sleeps = 2
    /\ pc = "check_servers"
    /\ notify_ok
    /\ ~loop_ok
    /\ last_ok # None
    /\ ~check_err

\* ---------------------------------------------------------------------
\* check_servers and the CheckResult it builds

\* a is b with some elements left out
RECURSIVE IsSubsequence(_, _)
IsSubsequence(a, b) ==
    IF a = << >> THEN TRUE
    ELSE IF b = << >> THEN FALSE
    ELSE IF Head(a) = Head(b) THEN IsSubsequence(Tail(a), Tail(b))
    ELSE IsSubsequence(a, Tail(b))

\* the requested servers that check_servers has passed in this cycle
Checked == SubSeq(servers, 1, idx - 1)

\* C11 (as stated): when check_servers has returned, every requested
\* server was checked, also when the check of one of them failed.
C11_AllServersChecked ==
    pc = "checked" => Checked = servers

\* C12: at every point of a cycle the available servers are a subsequence
\* of the requested servers checked so far, and a provider check adds the
\* checked server at the end exactly when it answered true.
C12_AvailableSubsequence ==
    [][ /\ IsSubsequence(current'.available_servers, Checked')
        /\ IsSubsequence(current'.available_servers, servers')
        /\ pc = "check_servers" =>
              /\ call'.op = "check"
              /\ call'.server = servers[idx]
              /\ current'.available_servers =
                    IF call_result' = Ok("true")
                    THEN Append(current.available_servers, call'.server)
                    ELSE current.available_servers ]_vars

\* a server requested twice was found available twice, between two
\* checks that answered true and false
C12_Witness ==
    /\ servers = << "typeA", "typeB", "typeA" >>
    /\ pc = "checked"
    /\ ~check_err
    /\ current.available_servers = << "typeA", "typeA" >>

\* ---------------------------------------------------------------------
\* the store on its own: CheckResultStorage called with any key

StorageProviderNames == {"ovh", "online"}
StorageServerLists == { <<"typeA", "typeB">>, <<"typeB", "typeA">> }
StorageAvailableLists == { <<"typeA">>, <<"typeA", "typeB">> }

\* the keys of the store: a provider name and a requested list
StorageKeys == StorageProviderNames \X StorageServerLists

\* the variables of the controller, which the store leaves alone
ctl_vars == << pc, run, provider_name, servers, notifier, interval, idx,
               check_err, current, latest, first_check, first_notify,
               retval, cycle, sleeps, trace, once_prev, once_last, once_ok,
               prev_ok, last_ok, loop_ok, notify_ok, prev_notify_failed,
               last_attempt >>

\* no controller is running
Parked(where) ==
    /\ pc = where
    /\ run = 1
    /\ provider_name = "ovh"
    /\ servers = << "typeA", "typeB" >>
    /\ notifier = FALSE
    /\ interval = FALSE
    /\ idx = 1
    /\ check_err = FALSE
    /\ current = CheckResult_new(provider_name)
    /\ latest = CheckResult_new(provider_name)
    /\ first_check = TRUE
    /\ first_notify = TRUE
    /\ retval = "Running"
    /\ cycle = 0
    /\ sleeps = 0
    /\ trace = << >>
    /\ once_prev = None
    /\ once_last = None
    /\ once_ok = TRUE
    /\ prev_ok = None
    /\ last_ok = None
    /\ loop_ok = TRUE
    /\ notify_ok = FALSE
    /\ prev_notify_failed = FALSE
    /\ last_attempt = None

StorageInit ==
    /\ Parked("storage")
    /\ store = << >>
    /\ call = NoCall
    /\ call_result = NoResult

\* CheckResultStorage::new on a path of some kind; a path that is not yet
\* a directory holds no record
storage_new ==
    /\ pc = "storage"
    /\ \E kind \in PathKinds :
          /\ kind # "dir" => store = << >>
          /\ call' = [op |-> "new", path |-> kind,
                      after |-> create_dir_all(kind).after]
          /\ call_result' = CheckResultStorage_new(kind)
    /\ UNCHANGED << ctl_vars, store >>

\* put_hash of some result under some key
storage_put_hash ==
    /\ pc = "storage"
    /\ \E key \in StorageKeys, avail \in StorageAvailableLists,
          wr \in WriteOutcomes :
          LET r == [provider_name |-> key[1], available_servers |-> avail]
          IN  /\ call' = [op |-> "put_hash", name |-> key[1],
                          servers |-> key[2], avail |-> avail, io |-> wr]
              /\ call_result' = put_hash_io(wr)
              /\ store' = IF wr = "ok"
                          THEN put_hash(store, key[1], key[2], r)
                          ELSE put_hash_failed(store, key[1], key[2], wr)
    /\ UNCHANGED ctl_vars

\* get_hash of some key
storage_get_hash ==
    /\ pc = "storage"
    /\ \E key \in StorageKeys, rd \in ReadOutcomes :
          /\ call' = [op |-> "get_hash", name |-> key[1],
                      servers |-> key[2], avail |-> << >>, io |-> rd]
          /\ call_result' = get_hash_io(store, key[1], key[2], rd)
    /\ UNCHANGED << ctl_vars, store >>

\* is_equal of some result with the record of some key
storage_is_equal ==
    /\ pc = "storage"
    /\ \E key \in StorageKeys, avail \in StorageAvailableLists,
          rd \in ReadOutcomes :
          LET r == [provider_name |-> key[1], available_servers |-> avail]
          IN  /\ call' = [op |-> "is_equal", name |-> key[1],
                          servers |-> key[2], avail |-> avail, io |-> rd]
              /\ call_result' = is_equal_io(store, key[1], key[2], r, rd)
    /\ UNCHANGED << ctl_vars, store >>

StorageNext ==
    \/ storage_new
    \/ storage_put_hash
    \/ storage_get_hash
    \/ storage_is_equal

StorageSpec == StorageInit /\ [][StorageNext]_vars

\* a CheckResult of the provider name with the available list avail
StorageResult(name, avail) ==
    [provider_name |-> name, available_servers |-> avail]

\* C13: is_equal answers false, and not an error, whenever the key it is
\* asked about has no record, whatever the provider name, the requested
\* list and the CheckResult.
C13_AbsentIsDifferent ==
    ( /\ call.op = "is_equal"
      /\ call.io = "ok"
      /\ get_path(call.name, call.servers) \notin DOMAIN store )
    => call_result = Ok("false")

\* is_equal is asked about a key without record while another key has one
C13_Witness ==
    /\ call.op = "is_equal"
    /\ call.io = "ok"
    /\ call.name = "online"
    /\ call.avail = << "typeA" >>
    /\ get_path(call.name, call.servers) \notin DOMAIN store
    /\ get_path("ovh", call.servers) \in DOMAIN store
    /\ call_result = Ok("false")

\* C14: after a successful put_hash of a result under a key, is_equal under
\* that key is true for that result and false for every result with another
\* available list, whatever was stored before; is_equal leaves the store as
\* it is, and asked again it answers the same.
C14_PutThenEqual ==
    [][ /\ (call'.op = "put_hash" /\ call_result'.tag = "Ok") =>
              \A avail \in StorageAvailableLists :
                 is_equal_io(store', call'.name, call'.servers,
                             StorageResult(call'.name, avail), "ok")
                    = Ok(BoolStr(avail = call'.avail))
        /\ call'.op = "is_equal" => store' = store
        /\ ( /\ call.op = "is_equal"
             /\ call'.op = "is_equal"
             /\ call'.name = call.name
             /\ call'.servers = call.servers
             /\ call'.avail = call.avail
             /\ call'.io = call.io ) => call_result' = call_result ]_vars

\* is_equal answered true for the result that was stored under its key,
\* while other keys hold records
C14_Witness ==
    /\ call.op = "is_equal"
    /\ call_result = Ok("true")
    /\ call.avail = << "typeA" >>
    /\ get_hash(store, call.name, call.servers)
          = Some(to_json_sha256(<< "typeA" >>))
    /\ Cardinality(DOMAIN store) > 1

\* the same servers, in any order
SameServers(a, b) ==
    /\ Len(a) = Len(b)
    /\ \A x \in { a[i] : i \in DOMAIN a } :
          Cardinality({ i \in DOMAIN a : a[i] = x })
             = Cardinality({ i \in DOMAIN b : b[i] = x })

\* C15 (as stated): the record written for a requested list is the record
\* of every reordering of that list.
C15_KeyIgnoresOrder ==
    (call.op = "put_hash" /\ call_result.tag = "Ok") =>
       \A srv \in StorageServerLists :
          SameServers(srv, call.servers) =>
             get_hash(store, call.name, srv)
                = get_hash(store, call.name, call.servers)

\* C16: put_hash under one key, successful or not, leaves get_hash and
\* is_equal as they were for every key with another provider name or
\* another requested list.
C16_KeysIndependent ==
    [][ call'.op = "put_hash" =>
           \A key \in StorageKeys :
              (key[1] # call'.name \/ key[2] # call'.servers) =>
                 /\ get_hash(store', key[1], key[2])
                       = get_hash(store, key[1], key[2])
                 /\ \A avail \in StorageAvailableLists :
                       is_equal(store', key[1], key[2],
                                StorageResult(key[1], avail))
                          = is_equal(store, key[1], key[2],
                                     StorageResult(key[1], avail)) ]_vars

\* a record was written while the same list has a record under the other
\* provider name, and the reversed list one under the same provider name
C16_Witness ==
    /\ call.op = "put_hash"
    /\ call_result.tag = "Ok"
    /\ call.name = "ovh"
    /\ call.servers = << "typeA", "typeB" >>
    /\ call.avail = << "typeA" >>
    /\ get_hash(store, "online", call.servers)
          = Some(to_json_sha256(<< "typeA", "typeB" >>))
    /\ get_hash(store, "ovh", << "typeB", "typeA" >>)
          = Some(to_json_sha256(<< "typeA", "typeB" >>))

\* C17: get_hash answers Ok(None) exactly when the read went through and
\* found no record, and an error for every other failure of the read; a
\* single-shot cycle whose is_equal or put_hash failed has returned that
\* error to its caller and notified nothing.
C17_StorageFailureSurfaces ==
    /\ \A rd \in ReadOutcomes :
          LET r == get_hash_io(store, provider_name, servers, rd)
          IN  /\ r = Ok("None") <=>
                    /\ rd = "ok"
                    /\ get_path(provider_name, servers) \notin DOMAIN store
              /\ r.tag = "Err" <=> rd # "ok"
    /\ (call.op = "is_equal" /\ call.io # "ok") => call_result.tag = "Err"
    /\ (call.op = "put_hash" /\ call.io # "ok") => call_result.tag = "Err"
    /\ (call.op \in {"is_equal", "put_hash"} /\ call_result.tag = "Err") =>
          /\ pc = "returned"
          /\ retval = "IOError"
          /\ Returned(trace, call.op, "Err")
          /\ ~Returned(trace, call.op, "Ok")
          /\ "notify_result" \notin Ops(trace)

\* a single-shot cycle found its record unreadable and returned the error
C17_Witness ==
    /\ ~interval
    /\ pc = "returned"
    /\ call.op = "is_equal"
    /\ call.io = "denied"
    /\ get_path(provider_name, servers) \in DOMAIN store
    /\ current.available_servers # << >>
    /\ retval = "IOError"

\* C18 (as stated): CheckResultStorage::new creates the storage root when
\* it is absent, fails with ValueError when the path exists and is not a
\* directory, and with IOError when the directory cannot be created.
C18_NewErrors ==
    call.op = "new" =>
       /\ call.path = "absent" =>
             (call_result.tag = "Ok" /\ is_dir(call.after))
       /\ call.path = "file" => call_result = Err("ValueError")
       /\ call.path = "uncreatable" => call_result = Err("IOError")

\* ---------------------------------------------------------------------
\* the providers on their own: ProviderTrait::check against what the
\* provider's API holds and how the HTTP exchange goes

MaxEntries == 2     \* entries in an OVH answer
MaxZones == 2       \* configured Scaleway zones

\* the sequences over S of length at most n
SeqsUpTo(S, n) == UNION { [1..k -> S] : k \in 0..n }

\* the server ids asked about
ServerIds == {"typeA", "typeB"}

\* how an HTTP exchange goes: a 2xx answer that deserialises, a failure of
\* the transport, a status that is no success, or a body that is no JSON
\* of the expected shape
HttpOutcomes == {"ok", "transport", "status", "json"}

\* the error of an exchange that did not go through
http_error(http) == IF http = "status" THEN "ApiError" ELSE "RequestError"

\* ----- OVH
\* the availability strings of one server in its datacenters
OvhDatacenters ==
    { << >>, << "unavailable" >>, << "unknown", "1H-high" >>,
      << "unavailable", "unknown" >> }

OvhEntries == [server : ServerIds, datacenters : OvhDatacenters]

OvhDedicatedServerDatacenterAvailability_is_available(availability) ==
    availability \notin {"unavailable", "unknown"}

OvhDedicatedServerInformation_is_available(info) ==
    \E i \in DOMAIN info.datacenters :
       OvhDedicatedServerDatacenterAvailability_is_available(
           info.datacenters[i])

\* what the API answers to the query filtered on one server
ovh_filtered(catalogue, server) ==
    SelectSeq(catalogue, LAMBDA e : e.server = server)

\* the ids of Ovh::inventory(all = true)
ovh_inventory(catalogue) == { catalogue[i].server : i \in DOMAIN catalogue }

\* variant of Ovh_check: the last of several entries decides
Ovh_check_last(catalogue, http, server) ==
    LET results == ovh_filtered(catalogue, server)
    IN  IF http # "ok" THEN Err(http_error(http))
        ELSE IF results = << >> THEN Err("UnknownServer")
        ELSE Ok(BoolStr(OvhDedicatedServerInformation_is_available(
                            results[Len(results)])))

\* Ovh::check
Ovh_check(catalogue, http, server) ==
    LET results == ovh_filtered(catalogue, server)
    IN  IF http # "ok" THEN Err(http_error(http))
        ELSE IF results = << >> THEN Err("UnknownServer")
        ELSE LET result == results[Len(results)]
                 rest == SubSeq(results, 1, Len(results) - 1)
             IN  IF rest = << >>
                 THEN Ok(BoolStr(
                          OvhDedicatedServerInformation_is_available(result)))
                 ELSE Err("ApiError")

\* ----- Online
\* OnlineDediboxProductAvailability: the answer for a product the API has;
\* the flag and the list are two fields of the body, deserialised apart
OnlineAvailabilities ==
    { [available |-> TRUE, datacenters |-> << "DC2" >>],
      [available |-> TRUE, datacenters |-> << "DC3", "DC5" >>],
      [available |-> FALSE, datacenters |-> << >>],
      [available |-> TRUE, datacenters |-> << >>],
      [available |-> FALSE, datacenters |-> << "DC2" >>] }

\* the products the API has: some ids, each with its availability
OnlinePlans ==
    UNION { [ids -> OnlineAvailabilities] : ids \in SUBSET ServerIds }

\* ONLINE_DATACENTERS, tokenized: empty when not set
OnlineAllowLists == { << >>, << "DC2" >>, << "DC5", "DC9" >> }

\* how the API answers about a product it does not have: a status that is
\* no success, a body of another shape, or a product that is not available
OnlineMissing == {"status", "json", "unavailable"}

\* the ids of Online::inventory(all = true)
online_inventory(plans) == DOMAIN plans

\* the elements two lists have in common
intersect(a, b) == { a[i] : i \in DOMAIN a } \cap { b[i] : i \in DOMAIN b }

\* variant of Online_check: without allow-list the returned list decides
Online_check_nonempty(plans, missing, datacenters, http, product_id) ==
    LET known == product_id \in DOMAIN plans
        answered == IF http # "ok" \/ known THEN http
                    ELSE IF missing = "unavailable" THEN "ok" ELSE missing
        result == IF known THEN plans[product_id]
                  ELSE [available |-> FALSE, datacenters |-> << >>]
    IN  IF answered # "ok" THEN Err(http_error(answered))
        ELSE IF Len(datacenters) = 0
        THEN Ok(BoolStr(Len(result.datacenters) > 0))
        ELSE Ok(BoolStr(
                 Cardinality(intersect(datacenters, result.datacenters)) > 0))

\* Online::get_product_availability, which is all of Online::check
Online_check(plans, missing, datacenters, http, product_id) ==
    LET known == product_id \in DOMAIN plans
        answered == IF http # "ok" \/ known THEN http
                    ELSE IF missing = "unavailable" THEN "ok" ELSE missing
        result == IF known THEN plans[product_id]
                  ELSE [available |-> FALSE, datacenters |-> << >>]
    IN  IF answered # "ok" THEN Err(http_error(answered))
        ELSE IF Len(datacenters) = 0 THEN Ok(BoolStr(result.available))
        ELSE Ok(BoolStr(
                 Cardinality(intersect(datacenters, result.datacenters)) > 0))

\* ----- Scaleway
\* enable and stock of a ScalewayBaremetalOffer
ScalewayOffers ==
    { [enable |-> TRUE, stock |-> "empty"],
      [enable |-> TRUE, stock |-> "available"],
      [enable |-> FALSE, stock |-> "low"] }

\* one configured zone seen from one offer id: the offer the zone has for
\* it, if any (the zone answers 404 when it has none), and how the
\* exchange with the zone goes otherwise
ScalewayZones ==
    [offer : {None} \cup { Some(o) : o \in ScalewayOffers },
     http : HttpOutcomes]

ScalewayBaremetalOffer_is_available(offer) ==
    offer.enable /\ offer.stock # "empty"

\* variant of get_zone_offer: a 404 is an error like any other status
get_zone_offer_strict(zone) ==
    IF zone.http \in {"transport", "status"} THEN Err(http_error(zone.http))
    ELSE IF zone.offer = None THEN Err("ApiError")
    ELSE IF zone.http = "json" THEN Err(http_error(zone.http))
    ELSE Ok("Some")

\* Scaleway::get_zone_offer: Ok(None) on 404, Ok(Some(offer)), or an error
get_zone_offer(zone) ==
    IF zone.http \in {"transport", "status"} THEN Err(http_error(zone.http))
    ELSE IF zone.offer = None THEN Ok("None")
    ELSE IF zone.http = "json" THEN Err(http_error(zone.http))
    ELSE Ok("Some")

\* Scaleway::get_offer from the zone at index i on, result being the
\* Option built from the zones before it; the answer is the error, or the
\* Option after the last zone
RECURSIVE get_offer(_, _, _)
get_offer(zones, i, result) ==
    IF i > Len(zones) THEN [tag |-> "Ok", offer |-> result]
    ELSE LET found == get_zone_offer(zones[i])
         IN  IF found.tag = "Err" THEN [tag |-> "Err", val |-> found.val]
             ELSE IF found.val = "None" THEN get_offer(zones, i + 1, result)
             ELSE LET offer == zones[i].offer[1]
                      info == IF result = None THEN offer ELSE result[1]
                  IN  IF ~ScalewayBaremetalOffer_is_available(info)
                         /\ ScalewayBaremetalOffer_is_available(offer)
                      THEN get_offer(zones, i + 1, Some(offer))
                      ELSE get_offer(zones, i + 1, Some(info))

\* Scaleway::check
Scaleway_check(zones) ==
    LET offer == get_offer(zones, 1, None)
    IN  IF offer.tag = "Err" THEN Err(offer.val)
        ELSE IF offer.offer = None THEN Err("UnknownServer")
        ELSE Ok(BoolStr(ScalewayBaremetalOffer_is_available(offer.offer[1])))

\* whether the id is in Scaleway::inventory(all = true): some configured
\* zone lists an offer with it
scaleway_inventory(zones) == \E i \in DOMAIN zones : zones[i].offer # None

\* ----- Scaleway inventory
\* the order in which a zone lists its offers
ServerIdOrder == << "typeA", "typeB" >>

\* one configured zone seen from the inventory: for each offer id the offer
\* the zone lists, if any, and how the exchange with the zone goes
ScalewayListings ==
    [offers : [ServerIds -> {None} \cup { Some(o) : o \in ScalewayOffers }],
     http : HttpOutcomes]

\* the offers (id, enable, stock) of the ids from index k on that the zone
\* lists
RECURSIVE zone_offers(_, _)
zone_offers(zone, k) ==
    IF k > Len(ServerIdOrder) THEN << >>
    ELSE LET id == ServerIdOrder[k]
         IN  IF zone.offers[id] = None THEN zone_offers(zone, k + 1)
             ELSE << [id |-> id, enable |-> zone.offers[id][1].enable,
                      stock |-> zone.offers[id][1].stock] >>
                  \o zone_offers(zone, k + 1)

\* Scaleway::get_zone_offers
get_zone_offers(zone) ==
    IF zone.http # "ok" THEN Err(http_error(zone.http))
    ELSE [tag |-> "Ok", val |-> "offers", offers |-> zone_offers(zone, 1)]

\* variant of insert_or_update_offer: the later sighting always wins
insert_or_update_offer_overwrite(map, offer) ==
    IF \E i \in DOMAIN map : map[i].id = offer.id
    THEN [i \in DOMAIN map |->
             IF map[i].id = offer.id
             THEN [map[i] EXCEPT !.enable = offer.enable,
                                 !.stock = offer.stock]
             ELSE map[i]]
    ELSE Append(map, offer)

\* Scaleway::insert_or_update_offer on the entries of the map, kept in the
\* order of their insertion
insert_or_update_offer(map, offer) ==
    IF \E i \in DOMAIN map : map[i].id = offer.id
    THEN [i \in DOMAIN map |->
             IF map[i].id = offer.id
                /\ ScalewayBaremetalOffer_is_available(offer)
             THEN [map[i] EXCEPT !.enable = offer.enable,
                                 !.stock = offer.stock]
             ELSE map[i]]
    ELSE Append(map, offer)

\* the inner loop of get_offers: the offers of one zone, from index k on
RECURSIVE insert_all(_, _, _)
insert_all(map, offers, k) ==
    IF k > Len(offers) THEN map
    ELSE insert_all(insert_or_update_offer(map, offers[k]), offers, k + 1)

\* Scaleway::get_offers from the zone at index i on
RECURSIVE get_offers(_, _, _)
get_offers(zones, i, map) ==
    IF i > Len(zones) THEN [tag |-> "Ok", val |-> "offers", offers |-> map]
    ELSE LET result == get_zone_offers(zones[i])
         IN  IF result.tag = "Err" THEN result
             ELSE get_offers(zones, i + 1,
                             insert_all(map, result.offers, 1))

\* ----- construction from the environment
MaxCsvLen == 3      \* characters in the value of an environment variable

\* a string is the sequence of its characters
CsvChars == {"a", "b", ",", " "}
CsvStrings == SeqsUpTo(CsvChars, MaxCsvLen)

\* an environment variable holding a list: not set, or set to a string
CsvValues == {None} \cup { Some(v) : v \in CsvStrings }

\* ONLINE_PRIVATE_TOKEN: not set, or set to a string
TokenValues ==
    { None, Some(<< >>), Some(<< " " >>), Some(<< "a" >>), Some(<< "a", " " >>) }

\* SCALEWAY_SECRET_KEY: not set, or set to a string
SecretValues ==
    { None, Some(""), Some("secret"),
      Some("123e4567-e89b-12d3-a456-426614174000") }

\* Uuid::parse_str succeeds
Uuid_parse_str(secret_key) ==
    secret_key = "123e4567-e89b-12d3-a456-426614174000"

RECURSIVE trim_start(_)
trim_start(text) ==
    IF text # << >> /\ Head(text) = " " THEN trim_start(Tail(text)) ELSE text

RECURSIVE trim_end(_)
trim_end(text) ==
    IF text # << >> /\ text[Len(text)] = " "
    THEN trim_end(SubSeq(text, 1, Len(text) - 1))
    ELSE text

\* str::trim
trim(text) == trim_end(trim_start(text))

\* str::split(','), token being the characters read since the last comma
RECURSIVE split(_, _)
split(text, token) ==
    IF text = << >> THEN << token >>
    ELSE IF Head(text) = "," THEN << token >> \o split(Tail(text), << >>)
    ELSE split(Tail(text), Append(token, Head(text)))

\* csv.split(',').map(|s| s.trim())
tokens(csv) == LET raw == split(csv, << >>)
               IN  [i \in DOMAIN raw |-> trim(raw[i])]

\* get_env_var_option: the trimmed value, if the variable is set
get_env_var_option(value) ==
    IF value = None THEN None ELSE Some(trim(value[1]))

\* a constructed provider, with the list it filters or iterates on
Constructed(name, list) == [tag |-> "Ok", val |-> name, list |-> list]

\* tokenize_optional_csv_str
tokenize_optional_csv_str(csv) ==
    IF csv = None THEN Constructed("tokens", << >>)
    ELSE IF \E i \in DOMAIN tokens(csv[1]) : tokens(csv[1])[i] = << >>
    THEN Err("ValueError")
    ELSE Constructed("tokens", tokens(csv[1]))

\* Ovh::from_env and Ovh::new
Ovh_from_env(exclude) ==
    LET excluded_datacenters ==
            tokenize_optional_csv_str(get_env_var_option(exclude))
    IN  IF excluded_datacenters.tag = "Err" THEN excluded_datacenters
        ELSE Constructed("ovh", excluded_datacenters.list)

\* Online::from_env and Online::new
Online_from_env(token, dc) ==
    LET api_token == get_env_var_option(token)
        datacenters == tokenize_optional_csv_str(get_env_var_option(dc))
    IN  IF api_token = None THEN Err("EnvError")
        ELSE IF api_token[1] = << >> THEN Err("ValueError")
        ELSE IF datacenters.tag = "Err" THEN datacenters
        ELSE Constructed("online", datacenters.list)

\* Scaleway::from_env and Scaleway::new
Scaleway_from_env(secret, zones_value) ==
    LET zones_csv == get_env_var_option(zones_value)
    IN  IF secret = None \/ zones_csv = None THEN Err("EnvError")
        ELSE IF ~Uuid_parse_str(secret[1]) THEN Err("ValueError")
        ELSE IF \E i \in DOMAIN tokens(zones_csv[1]) :
                   tokens(zones_csv[1])[i] = << >>
        THEN Err("ValueError")
        ELSE Constructed("scaleway", tokens(zones_csv[1]))

\* ----- the notifiers
\* the types of notifiers/ifttt_webhook.rs and notifiers/email.rs, which
\* take a CheckResult
WebHookTypes == {"WebHookJson", "WebHookValues"}
EmailTypes == {"EmailViaSendmail", "EmailViaSmtp"}
\* the types of notifiers/simple.rs
SimpleTypes == {"SimpleGet", "SimplePost", "SimplePut"}
\* the types of notifiers/ifttt.rs
IftttTypes == {"ifttt::WebHookJson", "ifttt::WebHookValues"}

NotifierTypes == SimpleTypes \cup WebHookTypes \cup EmailTypes \cup IftttTypes

\* CheckResult::get_dummy
CheckResult_get_dummy ==
    [provider_name |-> "dummy_provider",
     available_servers |-> << "foo_server", "bar_server", "baz_server" >>]

\* notifiers/ifttt.rs, get_dummy_provider_check_result
get_dummy_provider_check_result ==
    [provider_name |-> "test_provider",
     available_servers |-> << "foo", "bar", "baz" >>]

\* what can stop a notify before anything is sent: EMAIL_FROM or EMAIL_TO
\* unset or not a mailbox, a port with no known transport, a body that
\* cannot be serialised
PrepareOutcomes == {"ok", "EnvError", "EmailError", "ValueError", "JsonError"}

\* the errors the type's notify can return before it sends
PrepareErrors(type) ==
    CASE type = "SimpleGet" -> {}
      [] type \in {"SimplePost", "SimplePut"} -> {"JsonError"}
      [] type \in WebHookTypes \cup IftttTypes -> {"JsonError"}
      [] type = "EmailViaSendmail" -> {"EnvError", "EmailError"}
      [] type = "EmailViaSmtp" -> {"EnvError", "EmailError", "ValueError"}

\* what the other side does with the one request or message: accepts it,
\* is not reached, refuses it with a client error whose body is the
\* documented JSON or is not, fails with a server error
Replies == {"success", "unreachable", "client_error", "client_error_garbled",
            "server_error"}

\* send_request, WebHookPoster::post, EmailViaSendmail::send and
\* EmailViaSmtp::send after the request or message was handed over
transport(type, reply) ==
    IF reply = "success" THEN Ok("()")
    ELSE IF type \in EmailTypes THEN Err("EmailError")
    ELSE IF reply = "unreachable" THEN Err("RequestError")
    ELSE IF type \in SimpleTypes THEN Err("ApiError")
    ELSE IF reply = "client_error_garbled" THEN Err("RequestError")
    ELSE Err("ApiError")

\* what a notify or a test did: its Result, the results notify was called
\* with, the results that went out in a request or a message
Sent(tag, val, given, requests) ==
    [tag |-> tag, val |-> val, given |-> given, requests |-> requests]

\* variant of notify: a request that failed is sent once more
notify_retry(type, result, prep, reply) ==
    IF prep \in PrepareErrors(type) THEN Sent("Err", prep, << result >>, << >>)
    ELSE LET r == transport(type, reply)
         IN  IF r.tag = "Err"
             THEN Sent(r.tag, r.val, << result >>, << result, result >>)
             ELSE Sent(r.tag, r.val, << result >>, << result >>)

\* NotifierTrait::notify of the type
notify(type, result, prep, reply) ==
    IF prep \in PrepareErrors(type) THEN Sent("Err", prep, << result >>, << >>)
    ELSE LET r == transport(type, reply)
         IN  Sent(r.tag, r.val, << result >>, << result >>)

\* the types whose test passes a dummy the sources define (simple.rs
\* passes ProviderCheckResult::get_dummy, which no source file defines)
TestTypes == NotifierTypes \ SimpleTypes

\* the dummy the test of the type passes
test_dummy(type) ==
    IF type \in IftttTypes THEN get_dummy_provider_check_result
    ELSE CheckResult_get_dummy

\* NotifierTrait::test of the type
test(type, prep, reply) == notify(type, test_dummy(type), prep, reply)

\* Runner::notify_result: without a notifier the servers are printed,
\* otherwise notify is called and its Result returned
Runner_notify_result(notifier_type, result, prep, reply) ==
    IF notifier_type = None THEN Sent("Ok", "()", << >>, << >>)
    ELSE notify(notifier_type[1], result, prep, reply)

\* the results a notify is given
NotifyArguments ==
    { CheckResult_get_dummy,
      [provider_name |-> "ovh", available_servers |-> << >>],
      [provider_name |-> "ovh", available_servers |-> << "typeA" >>] }

\* ----- the calls
\* an Ovh::check of some id against some answer of the API
OvhCalls ==
    [op : {"check"}, provider : {"ovh"}, server : ServerIds,
     http : HttpOutcomes, catalogue : SeqsUpTo(OvhEntries, MaxEntries)]

\* an Online::check of some id against some plans of the API
OnlineCalls ==
    [op : {"check"}, provider : {"online"}, server : ServerIds,
     http : HttpOutcomes, plans : OnlinePlans, missing : OnlineMissing,
     datacenters : OnlineAllowLists]

\* a Scaleway::check of some id against some configured zones
ScalewayCalls ==
    [op : {"check"}, provider : {"scaleway"}, server : ServerIds,
     zones : SeqsUpTo(ScalewayZones, MaxZones) \ { << >> }]

\* a Scaleway::inventory(all = true) against some configured zones
ScalewayInventoryCalls ==
    [op : {"inventory"}, provider : {"scaleway"},
     zones : SeqsUpTo(ScalewayListings, MaxZones) \ { << >> }]

\* the construction of a provider from some environment
FromEnvCalls ==
    [op : {"from_env"}, provider : {"ovh"}, exclude : CsvValues]
    \cup [op : {"from_env"}, provider : {"online"}, token : TokenValues,
          datacenters : CsvValues]
    \cup [op : {"from_env"}, provider : {"scaleway"}, secret : SecretValues,
          zones : CsvValues]

\* a lookup of some name in the table of the providers or of the notifiers
LookupCalls ==
    [op : {"from_env_by_name"}, provider : {"providers", "notifiers"},
     name : LookupNames, env : EnvOutcomes]

\* a notify of some notifier with some result
NotifyCalls ==
    [op : {"notify"}, provider : {"notifier"}, notifier : NotifierTypes,
     result : NotifyArguments, prep : PrepareOutcomes, reply : Replies]

\* a Runner::notify_result with or without a notifier
NotifyResultCalls ==
    [op : {"notify_result"}, provider : {"notifier"},
     notifier : { None } \cup { Some(type) : type \in NotifierTypes },
     result : NotifyArguments, prep : PrepareOutcomes, reply : Replies]

\* a test of some notifier
TestCalls ==
    [op : {"test"}, provider : {"notifier"}, notifier : TestTypes,
     prep : PrepareOutcomes, reply : Replies]

ProviderInit ==
    /\ Parked("provider")
    /\ store = << >>
    /\ call \in OvhCalls \cup OnlineCalls \cup ScalewayCalls
                \cup ScalewayInventoryCalls \cup FromEnvCalls
                \cup LookupCalls \cup NotifyCalls \cup TestCalls
                \cup NotifyResultCalls
    /\ call_result = NoResult

ovh_check ==
    /\ pc = "provider"
    /\ call.provider = "ovh"
    /\ call.op = "check"
    /\ call_result = NoResult
    /\ call_result' = Ovh_check(call.catalogue, call.http, call.server)
    /\ UNCHANGED << ctl_vars, store, call >>

online_check ==
    /\ pc = "provider"
    /\ call.provider = "online"
    /\ call.op = "check"
    /\ call_result = NoResult
    /\ call_result' = Online_check(call.plans, call.missing, call.datacenters,
                                   call.http, call.server)
    /\ UNCHANGED << ctl_vars, store, call >>

scaleway_check ==
    /\ pc = "provider"
    /\ call.provider = "scaleway"
    /\ call.op = "check"
    /\ call_result = NoResult
    /\ call_result' = Scaleway_check(call.zones)
    /\ UNCHANGED << ctl_vars, store, call >>

scaleway_get_offers ==
    /\ pc = "provider"
    /\ call.provider = "scaleway"
    /\ call.op = "inventory"
    /\ call_result = NoResult
    /\ call_result' = get_offers(call.zones, 1, << >>)
    /\ UNCHANGED << ctl_vars, store, call >>

ovh_from_env ==
    /\ pc = "provider"
    /\ call.provider = "ovh"
    /\ call.op = "from_env"
    /\ call_result = NoResult
    /\ call_result' = Ovh_from_env(call.exclude)
    /\ UNCHANGED << ctl_vars, store, call >>

online_from_env ==
    /\ pc = "provider"
    /\ call.provider = "online"
    /\ call.op = "from_env"
    /\ call_result = NoResult
    /\ call_result' = Online_from_env(call.token, call.datacenters)
    /\ UNCHANGED << ctl_vars, store, call >>

scaleway_from_env ==
    /\ pc = "provider"
    /\ call.provider = "scaleway"
    /\ call.op = "from_env"
    /\ call_result = NoResult
    /\ call_result' = Scaleway_from_env(call.secret, call.zones)
    /\ UNCHANGED << ctl_vars, store, call >>

providers_from_env_by_name ==
    /\ pc = "provider"
    /\ call.provider = "providers"
    /\ call_result = NoResult
    /\ call_result' = from_env_by_name(PROVIDER_FACTORY, "UnknownProvider",
                                       call.name, call.env)
    /\ UNCHANGED << ctl_vars, store, call >>

notifiers_from_env_by_name ==
    /\ pc = "provider"
    /\ call.provider = "notifiers"
    /\ call_result = NoResult
    /\ call_result' = from_env_by_name(NOTIFIER_FACTORY, "UnknownNotifier",
                                       call.name, call.env)
    /\ UNCHANGED << ctl_vars, store, call >>

notifier_notify ==
    /\ pc = "provider"
    /\ call.provider = "notifier"
    /\ call.op = "notify"
    /\ call_result = NoResult
    /\ call_result' = notify(call.notifier, call.result, call.prep,
                             call.reply)
    /\ UNCHANGED << ctl_vars, store, call >>

runner_notify_result ==
    /\ pc = "provider"
    /\ call.provider = "notifier"
    /\ call.op = "notify_result"
    /\ call_result = NoResult
    /\ call_result' = Runner_notify_result(call.notifier, call.result,
                                           call.prep, call.reply)
    /\ UNCHANGED << ctl_vars, store, call >>

notifier_test ==
    /\ pc = "provider"
    /\ call.provider = "notifier"
    /\ call.op = "test"
    /\ call_result = NoResult
    /\ call_result' = test(call.notifier, call.prep, call.reply)
    /\ UNCHANGED << ctl_vars, store, call >>

ProviderNext ==
    \/ notifier_notify
    \/ runner_notify_result
    \/ notifier_test
    \/ providers_from_env_by_name
    \/ notifiers_from_env_by_name
    \/ ovh_check
    \/ online_check
    \/ scaleway_check
    \/ scaleway_get_offers
    \/ ovh_from_env
    \/ online_from_env
    \/ scaleway_from_env

ProviderSpec == ProviderInit /\ [][ProviderNext]_vars

\* the id the call asks about is in the inventory of its provider
InInventory ==
    CASE call.provider = "ovh" -> call.server \in ovh_inventory(call.catalogue)
      [] call.provider = "online" -> call.server \in online_inventory(call.plans)
      [] call.provider = "scaleway" -> scaleway_inventory(call.zones)

\* every exchange of the call went through, a product or an offer the API
\* does not have being reported by a status (404)
Answered ==
    CASE call.provider = "ovh" -> call.http = "ok"
      [] call.provider = "online" ->
            /\ call.http = "ok"
            /\ call.server \notin DOMAIN call.plans => call.missing = "status"
      [] call.provider = "scaleway" ->
            \A i \in DOMAIN call.zones : call.zones[i].http = "ok"

\* the call has returned
Called == call.op = "check" /\ call_result # NoResult

\* C19 (as stated): for each provider, check of an id returns UnknownServer
\* exactly when the id is not in the provider's inventory, and what it
\* returns is either a boolean or an error.
C19_UnknownIffNotInInventory ==
    (pc = "provider" /\ Called /\ Answered) =>
       /\ call_result = Err("UnknownServer") <=> ~InInventory
       /\ call_result.tag \in {"Ok", "Err"}
       /\ call_result.tag = "Ok" <=> call_result.val \in {"true", "false"}

\* C20: when the filtered query went through, Ovh::check returns
\* UnknownServer for no entry, ApiError for more than one entry, and for a
\* single entry whether one of its datacenters has an availability other
\* than "unavailable" and "unknown".
C20_OvhCheck ==
    (pc = "provider" /\ Called /\ call.provider = "ovh" /\ call.http = "ok") =>
       LET results == ovh_filtered(call.catalogue, call.server)
       IN  /\ Len(results) = 0 => call_result = Err("UnknownServer")
           /\ Len(results) > 1 => call_result = Err("ApiError")
           /\ Len(results) = 1 =>
                 call_result = Ok(BoolStr(
                    \E i \in DOMAIN results[1].datacenters :
                       results[1].datacenters[i]
                          \notin {"unavailable", "unknown"}))

\* the single entry of the asked server is available in its second
\* datacenter only, next to an entry of another server
C20_Witness ==
    /\ Called
    /\ call.provider = "ovh"
    /\ call.http = "ok"
    /\ call.server = "typeB"
    /\ call.catalogue =
          << [server |-> "typeA", datacenters |-> << "unavailable" >>],
             [server |-> "typeB", datacenters |-> << "unknown", "1H-high" >>] >>
    /\ call_result = Ok("true")

\* ---------------------------------------------------------------------
\* Online::check and the datacenter allow-list

\* the availability endpoint answered the call with a body that deserialises
OnlineAnswered ==
    /\ pc = "provider"
    /\ Called
    /\ call.provider = "online"
    /\ call.http = "ok"
    /\ call.server \in DOMAIN call.plans \/ call.missing = "unavailable"

\* the body it answered with
OnlineAnswer ==
    IF call.server \in DOMAIN call.plans THEN call.plans[call.server]
    ELSE [available |-> FALSE, datacenters |-> << >>]

Merged ==
    /\ pc = "provider"
    /\ call.op = "inventory"
    /\ call_result.tag = "Ok"

\* the zones that list the offer id
ZonesListing(id) == { i \in DOMAIN call.zones : call.zones[i].offers[id] # None }

\* C22: the merged inventory holds one entry for each offer id some zone
\* lists and none for the others, and the entry is available exactly when
\* one of the zones listing it reports it available, in whatever order the
\* zones are configured.
C22_MergeUpgradeOnly ==
    Merged =>
       \A id \in ServerIds :
          LET entries == { k \in DOMAIN call_result.offers :
                              call_result.offers[k].id = id }
          IN  /\ Cardinality(entries) = IF ZonesListing(id) = {} THEN 0 ELSE 1
              /\ \A k \in entries :
                    ScalewayBaremetalOffer_is_available(call_result.offers[k])
                    <=> \E i \in ZonesListing(id) :
                           ScalewayBaremetalOffer_is_available(
                               call.zones[i].offers[id][1])

\* typeA is seen available then not, typeB not available then available,
\* and both are merged as available
C22_Witness ==
    /\ Merged
    /\ Len(call.zones) = 2
    /\ call.zones[1].offers["typeA"] = Some([enable |-> TRUE, stock |-> "available"])
    /\ call.zones[2].offers["typeA"] = Some([enable |-> TRUE, stock |-> "empty"])
    /\ call.zones[1].offers["typeB"] = Some([enable |-> FALSE, stock |-> "low"])
    /\ call.zones[2].offers["typeB"] = Some([enable |-> TRUE, stock |-> "available"])
    /\ Len(call_result.offers) = 2
    /\ \A k \in DOMAIN call_result.offers :
          ScalewayBaremetalOffer_is_available(call_result.offers[k])

\* Scaleway::check has returned
ScalewayChecked ==
    /\ pc = "provider"
    /\ Called
    /\ call.provider = "scaleway"

\* the zone answers 404 for the offer
NotFound(zone) == zone.offer = None /\ zone.http \in {"ok", "json"}

\* the zone answers with the offer
Found(zone) == zone.offer # None /\ zone.http = "ok"

\* C23: Scaleway::check returns UnknownServer exactly when every configured
\* zone answered 404; when every zone answered 404 or with the offer, and
\* one at least with the offer, it returns whether one of these offers is
\* available, in whatever order the zones are configured.
C23_ScalewayCheck ==
    ScalewayChecked =>
       LET zones == call.zones
       IN  /\ call_result = Err("UnknownServer") <=>
                 \A i \in DOMAIN zones : NotFound(zones[i])
           /\ ( /\ \A i \in DOMAIN zones :
                      NotFound(zones[i]) \/ Found(zones[i])
                /\ \E i \in DOMAIN zones : Found(zones[i]) ) =>
                 call_result = Ok(BoolStr(
                    \E i \in DOMAIN zones :
                       /\ Found(zones[i])
                       /\ ScalewayBaremetalOffer_is_available(
                              zones[i].offer[1])))

\* the first zone answers 404 and the second has the offer available
C23_Witness ==
    /\ ScalewayChecked
    /\ Len(call.zones) = 2
    /\ NotFound(call.zones[1])
    /\ Found(call.zones[2])
    /\ call.zones[2].offer = Some([enable |-> TRUE, stock |-> "available"])
    /\ call_result = Ok("true")

\* ---------------------------------------------------------------------
\* construction of the providers

\* a construction has returned
FromEnv(provider) ==
    /\ pc = "provider"
    /\ call.op = "from_env"
    /\ call.provider = provider
    /\ call_result.tag # "none"

\* the variable is set and its value has an empty token
EmptyToken(value) ==
    /\ value # None
    /\ \E i \in DOMAIN tokens(trim(value[1])) : tokens(trim(value[1]))[i] = << >>

\* the optional list is not set, or set to nothing but blanks
EmptyOrUnset(value) == value = None \/ trim(value[1]) = << >>

\* C24 (as stated): a required field that is set and malformed or empty
\* makes the construction return ValueError; an optional filter that is
\* empty or not set constructs the provider, without filter.
C24_Construction ==
    /\ FromEnv("scaleway") =>
          /\ (call.secret # None /\ call.zones # None
                /\ ~Uuid_parse_str(call.secret[1])) =>
                call_result = Err("ValueError")
          /\ (call.secret # None /\ EmptyToken(call.zones)) =>
                call_result = Err("ValueError")
    /\ FromEnv("online") =>
          /\ (call.token # None /\ trim(call.token[1]) = << >>) =>
                call_result = Err("ValueError")
          /\ (call.token # None /\ trim(call.token[1]) # << >>
                /\ EmptyOrUnset(call.datacenters)) =>
                call_result = Constructed("online", << >>)
    /\ (FromEnv("ovh") /\ EmptyOrUnset(call.exclude)) =>
          call_result = Constructed("ovh", << >>)

\* ---------------------------------------------------------------------
\* the registries

\* a lookup has returned
LookedUp ==
    /\ pc = "provider"
    /\ call.op = "from_env_by_name"
    /\ call_result.tag # "none"

\* the table the lookup went to, and the error it has for unknown names
LookupTable ==
    IF call.provider = "providers" THEN PROVIDER_FACTORY ELSE NOTIFIER_FACTORY

LookupUnknown ==
    IF call.provider = "providers" THEN "UnknownProvider"
    ELSE "UnknownNotifier"

\* C25: a lookup of a name that is no key of the table fails with
\* UnknownProvider or UnknownNotifier and runs no constructor; a lookup of
\* a key runs the constructor of that one entry and no other, and the
\* instance it gives has the key as its name().
C25_RegistryConsistent ==
    LookedUp =>
       LET keys == { i \in DOMAIN LookupTable : LookupTable[i].name = call.name }
       IN  /\ keys = {} =>
                 /\ call_result.tag = "Err"
                 /\ call_result.val = LookupUnknown
                 /\ call_result.ran = << >>
           /\ keys # {} =>
                 /\ Cardinality(keys) = 1
                 /\ \A i \in keys :
                       call_result.ran = << LookupTable[i].factory >>
                 /\ call_result.tag = "Ok" => call_result.val = call.name
                 /\ call_result.tag = "Err" => call_result.val = call.env

\* the notifier email-sendmail is looked up and constructed
C25_Witness ==
    /\ LookedUp
    /\ call.provider = "notifiers"
    /\ call.name = "email-sendmail"
    /\ call_result = Looked("Ok", "email-sendmail", << "EmailViaSendmail" >>)


\* ------------------------------------------------------------------- C26
\* the names a table holds
Registered(FACTORY) == { FACTORY[i].name : i \in DOMAIN FACTORY }

\* the command was started with a configuration that is not valid: a
\* provider or notifier name of no entry, an environment the constructor
\* of the named entry refuses, or a storage path that is not and cannot be
\* made a directory
ConfigInvalid ==
    /\ call.op = "CheckRunner::new"
    /\ \/ call.provider \notin Registered(PROVIDER_FACTORY)
       \/ call.provider_env # "ok"
       \/ /\ call.notifier # None
          /\ \/ call.notifier[1] \notin Registered(NOTIFIER_FACTORY)
             \/ call.notifier_env # "ok"
       \/ call.storage \notin {"absent", "dir"}

Tested == pc = "provider" /\ call.op = "test" /\ call_result # NoResult

NotifyReturned ==
    /\ pc = "provider"
    /\ call.op \in {"notify", "notify_result"}
    /\ call_result # NoResult

\* the call had a notifier to call
WithNotifier == call.op = "notify" \/ call.notifier # None

Place(tr, op) ==
    IF op \in Ops(tr) THEN CHOOSE i \in DOMAIN tr : tr[i].op = op ELSE 0

\* a single-shot cycle ended by the failure of its notification
OnceNotifyFailed ==
    /\ ~interval
    /\ pc = "returned"
    /\ Returned(trace, "notify_result", "Err")

\* a single-shot run whose check found what the run before it found, that
\* run having ended by the failure of its notification
SameAfterNotifyFailed ==
    /\ ~interval
    /\ pc = "returned"
    /\ ~NewFailed
    /\ prev_notify_failed
    /\ ~check_err
    /\ once_prev = Some(current.available_servers)

\* the write came before the notification; its error is returned and the
\* record holds the hash of the result that was not notified
WrittenBeforeNotify ==
    OnceNotifyFailed =>
        /\ retval = "NotifyError"
        /\ Returned(trace, "put_hash", "Ok")
        /\ Place(trace, "put_hash") < Place(trace, "notify_result")
        /\ get_hash(store, provider_name, servers) =
               Some(to_json_sha256(current.available_servers))

\* C29 as stated: in a single-shot cycle the fingerprint is written before
\* the notifier is invoked, so when the notification fails the error is
\* returned but the record already holds the new hash, and a following run
\* with the same availability reports unchanged and sends no notification.
C29_Original ==
    /\ WrittenBeforeNotify
    /\ SameAfterNotifyFailed =>
           /\ Returned(trace, "is_equal", "true")
           /\ retval = "Ok"
           /\ ~Notified

\* C29 amended: in a single-shot cycle the fingerprint is written before
\* the notifier is invoked, so when the notification fails the error is
\* returned but the record already holds the new hash, and a following run
\* with the same availability sends no notification and leaves the record
\* as it is: it reports unchanged when the record can be read, and returns
\* the read error otherwise.
C29_WriteBeforeNotify ==
    /\ WrittenBeforeNotify
    /\ SameAfterNotifyFailed =>
           /\ ~Notified
           /\ "put_hash" \notin Ops(trace)
           /\ get_hash(store, provider_name, servers) =
                  Some(to_json_sha256(current.available_servers))
           /\ IF call.io = "ok"
              THEN Returned(trace, "is_equal", "true") /\ retval = "Ok"
              ELSE Returned(trace, "is_equal", "Err") /\ retval = "IOError"

\* typeA was stored and its notification failed; the next run finds typeA
\* again, reports unchanged and notifies nothing
C29_Witness ==
    /\ SameAfterNotifyFailed
    /\ run = 2
    /\ current.available_servers = << "typeA" >>
    /\ Returned(trace, "is_equal", "true")
    /\ retval = "Ok"
    /\ ~Notified


\* ------------------------------------------------------------------- C30
\* the step is a cycle of interval mode calling Runner::notify_result
Attempt == interval /\ pc = "checked" /\ Notified'

\* C30: in interval mode the remembered last result is replaced by the
\* current result as soon as a notification is attempted, whether it
\* succeeds or fails; hence two consecutive notification attempts of a run
\* never carry equal results, and a notification failure that was only
\* logged is not retried while the availability stays the same.  A cycle
\* attempts at most one notification.
C30_LatestFollowsAttempt ==
    /\ [][Attempt =>
            /\ latest' = current
            /\ Count(trace', "notify_result") = 1
            /\ \E e \in { trace'[i] : i \in DOMAIN trace' } :
                  /\ e.op = "notify_result"
                  /\ e.avail = current.available_servers
            /\ last_attempt # None =>
                   current.available_servers # last_attempt[1]]_vars
    /\ [][(interval /\ pc = "checked"
           /\ last_attempt = Some(current.available_servers)) =>
            /\ ~Notified'
            /\ latest' = latest
            /\ pc' = "loop"]_vars
    /\ [](interval => Count(trace, "notify_result") <= 1)
    /\ [](interval /\ last_attempt # None =>
             latest.available_servers = last_attempt[1])

\* a notification failed after an earlier one of the run succeeded: it
\* was logged, the loop goes on, and the result it carried is remembered
C30_Witness ==
    /\ interval
    /\ pc = "loop"
    /\ notify_ok
    /\ Returned(trace, "notify_result", "Err")
    /\ "eprintln" \in Ops(trace)
    /\ current.available_servers = << "typeA" >>
    /\ latest = current
    /\ last_attempt = Some(<< "typeA" >>)
    /\ prev_ok = Some(<< "typeA", "typeB" >>)
====
